---- MODULE Spec2Model ----
(***************************************************************************)
(* StudyBuddy: the local/remote state-synchronisation engine.              *)
(*                                                                         *)
(* The model follows src/app/hooks/useStudyData.ts (the gated hook, lines  *)
(* 16-135): the React state of the hook, the values captured by the last   *)
(* render (the closure saveData and the view handlers run with), the       *)
(* hasLoadedFromCloud ref, localStorage, the per-identity remote document  *)
(* and the GET / POST requests to /api/sync that are in flight.            *)
(***************************************************************************)
EXTENDS Integers, Sequences, FiniteSets, TLC

VARIABLES
    session,             \* useSession(): "loading", "anon" or the signed-in identity
    sessVer,             \* identity of the session object (a refetch yields a new object)
    st,                  \* React state of the hook: the five slices, latest set* applied
    cl,                  \* what the last render captured: slices, session, sessVer
    hasLoadedFromCloud,  \* the useRef gate
    isSyncing,           \* useState(false)
    lastSyncTime,        \* useState(null); TRUE when a Date has been stored
    localStorage,        \* key -> stored item
    remote,              \* identity -> Firestore document users/<id>
    gets,                \* GET /api/sync requests whose load() still awaits them
    posts,               \* POST /api/sync requests not yet settled
    nreq,                \* number of requests issued so far (numbers them)
    log,                 \* kinds of console messages written so far
    lastSave,            \* the most recent saveData call: its overrides and outcome
    lastLoad,            \* the most recent resumption of load() after its await
    hist,                \* counters and per-page-load history the properties refer to
    page,                \* the page component mounted: "hook" (a page that uses
                         \* useStudyData), "timer" or "calendar"
    call                 \* the most recent call of a list handler: its name and arguments

vars == <<session, sessVer, st, cl, hasLoadedFromCloud, isSyncing, lastSyncTime,
          localStorage, remote, gets, posts, nreq, log, lastSave, lastLoad, hist, page, call>>

----------------------------------------------------------------------------
(* Bounds of the model *)

MaxReq == 3          \* requests (GET and POST together) issued in one behaviour
MaxSaves == 2        \* saveData calls in one behaviour
MaxChanges == 1      \* changes of the session (identity or object) of a loaded page
MaxPageLoads == 1    \* page reloads / navigations in one behaviour

----------------------------------------------------------------------------
(* Data *)

Ids == {"A", "B"}
Slices == {"todos", "events", "studySessions", "loginStreak", "lastLogin"}
JsonSlices == {"todos", "events", "studySessions"}

EmptyMap == [d \in {} |-> 0]

\* useState initial values, lines 19-23; also the `|| default` operands of load()
DefaultOf(s) ==
    CASE s = "todos" -> <<>>
      [] s = "events" -> EmptyMap
      [] s = "studySessions" -> EmptyMap
      [] s = "loginStreak" -> 0
      [] s = "lastLogin" -> ""

InitialState == [s \in Slices |-> DefaultOf(s)]

\* localStorage key of a slice, lines 55-59
KeyOf(s) ==
    CASE s = "todos" -> "study_todos"
      [] s = "events" -> "study_events"
      [] s = "studySessions" -> "study_sessions"
      [] s = "loginStreak" -> "study_streak"
      [] s = "lastLogin" -> "study_last_login"

Keys == {KeyOf(s) : s \in Slices}
SliceOf(k) == CHOOSE s \in Slices : KeyOf(s) = k

\* an item of localStorage: absent (getItem gives null), or a string.  A
\* string is either the JSON text of a value or a plain text.
NoItem == [absent |-> TRUE]
JSONstringify(v) == [json |-> v]
JSONparse(item) == item.json
PlainText(t) == [str |-> t]

Digits == <<"0", "1", "2", "3">>
toString(n) == Digits[n + 1]
Number(t) == IF t = "" THEN 0 ELSE CHOOSE n \in 0..(Len(Digits) - 1) : Digits[n + 1] = t

\* the string written for a slice, lines 55-59 and 112-116
Stored(s, v) ==
    IF s \in JsonSlices THEN JSONstringify(v)
    ELSE IF s = "loginStreak" THEN PlainText(toString(v))
    ELSE PlainText(v)

\* the value load() reads back for a slice, lines 84-88
ReadLocal(ls, s) ==
    LET item == ls[KeyOf(s)] IN
    IF s \in JsonSlices
      THEN (IF item = NoItem THEN DefaultOf(s) ELSE JSONparse(item))
    ELSE IF s = "loginStreak"
      THEN (IF item = NoItem \/ item = PlainText("") THEN 0 ELSE Number(item.str))
    ELSE (IF item = NoItem THEN "" ELSE item.str)

localSnapshot(ls) == [s \in Slices |-> ReadLocal(ls, s)]

\* the five setItem calls of one snapshot, lines 55-59
persistLocal(snap) == [k \in Keys |-> Stored(SliceOf(k), snap[SliceOf(k)])]

ClearedStorage == [k \in Keys |-> NoItem]

Status(sess) ==
    IF sess = "loading" THEN "loading"
    ELSE IF sess = "anon" THEN "unauthenticated" ELSE "authenticated"


----------------------------------------------------------------------------
(* The remote store: /api/sync in front of src/lib/firestore.ts *)

NoDoc == [exists |-> FALSE]
DocOf(data) == [exists |-> TRUE, data |-> data]

\* getUserData: the document's data, or null
getUserData(doc) == IF doc.exists THEN [null |-> FALSE, data |-> doc.data] ELSE [null |-> TRUE]

\* DocumentReference.set(data, { merge: true }) on a map-valued field: the
\* keys of the written map replace or add to the keys already stored
mergeMap(old, new) ==
    [d \in (DOMAIN old) \cup (DOMAIN new) |-> IF d \in DOMAIN new THEN new[d] ELSE old[d]]

mergeField(s, old, new) == IF s \in {"events", "studySessions"} THEN mergeMap(old, new) ELSE new

\* saveUserData: set(data, { merge: true }); fields the body lacks are kept
saveUserData(doc, body) ==
    IF ~doc.exists THEN DocOf(body)
    ELSE DocOf([s \in (DOMAIN doc.data) \cup (DOMAIN body) |->
                  IF s \notin DOMAIN body THEN doc.data[s]
                  ELSE IF s \notin DOMAIN doc.data THEN body[s]
                  ELSE mergeField(s, doc.data[s], body[s])])

----------------------------------------------------------------------------
(* Values the behaviours draw from *)

Day1 == "d1"
Day2 == "d2"

\* a complete document, as saveData writes it from another device
SnapA == [todos |-> <<1>>, events |-> (Day1 :> <<1>>), studySessions |-> (Day1 :> 1),
          loginStreak |-> 1, lastLogin |-> Day1]
\* a document without todos and events, as the timer view's syncData creates it
PartB == [studySessions |-> (Day1 :> 2), loginStreak |-> 2, lastLogin |-> Day2]
\* a snapshot cached on this device by an earlier visit
SnapL == [todos |-> <<3>>, events |-> (Day2 :> <<3>>), studySessions |-> (Day2 :> 3),
          loginStreak |-> 3, lastLogin |-> Day2]

InitRemotes == { [A |-> DocOf(SnapA), B |-> db] : db \in {NoDoc, DocOf(PartB)} }
InitLocals == { ClearedStorage, persistLocal(SnapL) }

ViewSlices == {"todos", "events"}

NoOverrides == [s \in {} |-> 0]

----------------------------------------------------------------------------
(* Initial state: the page has been loaded, nothing has rendered yet *)

NotRendered == [mounted |-> FALSE, session |-> "loading", sessVer |-> 0, data |-> InitialState]

NoSave == [called |-> FALSE, blocked |-> FALSE, overrides |-> NoOverrides, posted |-> 0,
           warned |-> 0, req |-> 0]

NoLoad == [done |-> FALSE, kind |-> "none", forId |-> "none"]

NoCall == [n |-> 0, op |-> "none", args |-> <<>>]

NoHist == [ids |-> {"loading"}, resolved |-> {}, writes |-> 0, pageLoads |-> 0,
           saves |-> 0, changes |-> 0, applied |-> {},
           issued |-> [i \in Ids |-> [n |-> 0, body |-> InitialState]]]

Init ==
    /\ session = "loading"
    /\ sessVer = 0
    /\ st = InitialState
    /\ cl = NotRendered
    /\ hasLoadedFromCloud = FALSE
    /\ isSyncing = FALSE
    /\ lastSyncTime = FALSE
    /\ localStorage \in InitLocals
    /\ remote \in InitRemotes
    /\ gets = {}
    /\ posts = {}
    /\ nreq = 0
    /\ log = {}
    /\ lastSave = NoSave
    /\ lastLoad = NoLoad
    /\ hist = NoHist
    /\ page = "hook"
    /\ call = NoCall

----------------------------------------------------------------------------
(* The session provider (next-auth useSession) *)

\* the provider resolves the session of a freshly loaded page
SessionResolve ==
    /\ session = "loading"
    /\ \E s \in {"anon"} \cup Ids :
         /\ session' = s
         /\ hist' = [hist EXCEPT !.ids = @ \cup {s}]
    /\ UNCHANGED <<sessVer, st, cl, hasLoadedFromCloud, isSyncing, lastSyncTime,
                   localStorage, remote, gets, posts, nreq, log, lastSave, lastLoad, page, call>>

\* the identity changes while the page stays loaded: the provider's refetch
\* after a sign-in, a sign-out or an account switch in another tab, or after
\* the session expired
SessionChange ==
    /\ session # "loading"
    /\ hist.changes < MaxChanges
    /\ \E s \in ({"anon"} \cup Ids) \ {session} :
         /\ session' = s
         /\ hist' = [hist EXCEPT !.ids = @ \cup {s}, !.changes = @ + 1]
    /\ UNCHANGED <<sessVer, st, cl, hasLoadedFromCloud, isSyncing, lastSyncTime,
                   localStorage, remote, gets, posts, nreq, log, lastSave, lastLoad, page, call>>

\* the provider refetches the session of the same identity: a new session object
SessionRefetch ==
    /\ session \in Ids
    /\ hist.changes < MaxChanges
    /\ sessVer' = sessVer + 1
    /\ hist' = [hist EXCEPT !.changes = @ + 1]
    /\ UNCHANGED <<session, st, cl, hasLoadedFromCloud, isSyncing, lastSyncTime,
                   localStorage, remote, gets, posts, nreq, log, lastSave, lastLoad, page, call>>

----------------------------------------------------------------------------
(* useStudyData: saveData, lines 31-77 *)

\* mutant: saveData without the gate check, as the variant of lines 176-215
saveDataUngated(status, gate) == FALSE

\* step 1, lines 34-37: the gate check on the status the render captured
saveDataBlocked(status, gate) == status = "authenticated" /\ ~gate

\* mutant: finalData built as { studySessions, loginStreak, lastLogin,
\* ...overrides }, so that todos and events survive only when named
finalDataWithoutLists(overrides, current) ==
    [s \in Slices |-> IF s \in DOMAIN overrides THEN overrides[s]
                      ELSE IF s \in {"todos", "events"} THEN DefaultOf(s) ELSE current[s]]

\* step 2, lines 40-52: overrides ?? state, slice by slice; `current` is the
\* state the useCallback closure captured
finalData(overrides, current) ==
    [s \in Slices |-> IF s \in DOMAIN overrides THEN overrides[s] ELSE current[s]]

\* step 3, lines 55-59, reached only past the return of line 36
localAfterSave(blocked, ls, final) == IF blocked THEN ls ELSE persistLocal(final)

\* mutant: the cloud persist of lines 62-76 without its condition
cloudPersistAlways(clSession) == TRUE

\* step 4, line 62: session && status === 'authenticated', both as captured
cloudPersist(clSession) == clSession \in Ids /\ Status(clSession) = "authenticated"

\* the request of lines 65-69; the cookie names the identity signed in now
NewPost(body) == [n |-> nreq + 1, id |-> session, body |-> body, resp |-> "sent"]

\* mutant: a gate check that returns without console.warn
saveDataSilent(overrides) ==
    LET blocked == saveDataBlocked(Status(cl.session), hasLoadedFromCloud)
        final == finalData(overrides, cl.data)
        cloud == ~blocked /\ cloudPersist(cl.session)
    IN
    /\ cl.mounted
    /\ hist.saves < MaxSaves
    /\ cloud => nreq < MaxReq
    /\ localStorage' = localAfterSave(blocked, localStorage, final)
    /\ IF cloud
         THEN /\ isSyncing' = TRUE
              /\ posts' = posts \cup {NewPost(final)}
              /\ nreq' = nreq + 1
              /\ hist' = [hist EXCEPT !.writes = @ + 1, !.saves = @ + 1,
                             !.issued = IF session \in Ids
                                          THEN [@ EXCEPT ![session] =
                                                   [n |-> nreq + 1, body |-> final]]
                                          ELSE @]
         ELSE /\ hist' = [hist EXCEPT !.saves = @ + 1]
              /\ UNCHANGED <<isSyncing, posts, nreq>>
    /\ lastSave' = [called |-> TRUE, blocked |-> blocked, overrides |-> overrides,
                    posted |-> IF cloud THEN 1 ELSE 0, warned |-> 0,
                    req |-> IF cloud THEN nreq + 1 ELSE 0]
    /\ UNCHANGED <<session, sessVer, cl, hasLoadedFromCloud, lastSyncTime, remote, gets,
                   log, lastLoad, page, call>>

\* one call of saveData(overrides)
saveData(overrides) ==
    LET blocked == saveDataBlocked(Status(cl.session), hasLoadedFromCloud)
        final == finalData(overrides, cl.data)
        cloud == ~blocked /\ cloudPersist(cl.session)
    IN
    /\ cl.mounted
    /\ hist.saves < MaxSaves
    /\ cloud => nreq < MaxReq
    /\ localStorage' = localAfterSave(blocked, localStorage, final)
    /\ log' = IF blocked THEN log \cup {"Sync blocked"} ELSE log
    /\ IF cloud
         THEN /\ isSyncing' = TRUE
              /\ posts' = posts \cup {NewPost(final)}
              /\ nreq' = nreq + 1
              /\ hist' = [hist EXCEPT !.writes = @ + 1, !.saves = @ + 1,
                             !.issued = IF session \in Ids
                                          THEN [@ EXCEPT ![session] =
                                                   [n |-> nreq + 1, body |-> final]]
                                          ELSE @]
         ELSE /\ hist' = [hist EXCEPT !.saves = @ + 1]
              /\ UNCHANGED <<isSyncing, posts, nreq>>
    /\ lastSave' = [called |-> TRUE, blocked |-> blocked, overrides |-> overrides,
                    posted |-> IF cloud THEN 1 ELSE 0, warned |-> IF blocked THEN 1 ELSE 0,
                    req |-> IF cloud THEN nreq + 1 ELSE 0]
    /\ UNCHANGED <<session, sessVer, cl, hasLoadedFromCloud, lastSyncTime, remote, gets,
                   lastLoad, page, call>>

\* the id of a new item: Date.now(), later at every call
NewId == 4 + hist.saves

\* handleAddTodo, todos/page.tsx 65-90, for a task of the lowest priority:
\* the new task goes to the end of the todos the render captured
addTodo(todos) == Append(todos, NewId)

\* handleAddEvent, schedule/page.tsx 37-54, for an event on Day1
addEvent(events) ==
    [d \in (DOMAIN events) \cup {Day1} |->
        IF d = Day1
          THEN Append(IF Day1 \in DOMAIN events THEN events[Day1] ELSE <<>>, NewId)
          ELSE events[d]]

\* the next value a view handler computes for the slice it owns
NextValue(s, current) == IF s = "todos" THEN addTodo(current) ELSE addEvent(current)

\* a view handler: it computes the next value of its slice from the state
\* its render captured, calls the setter and then saveData with that value
Mutate ==
    \E s \in ViewSlices :
        LET v == NextValue(s, cl.data[s]) IN
        /\ st' = [st EXCEPT ![s] = v]
        /\ saveData(s :> v)

\* the fetch of lines 65-70 resolves: response.ok sets lastSyncTime; finally
\* clears isSyncing
SaveComplete ==
    \E p \in posts :
        /\ p.resp # "sent"
        /\ lastSyncTime' = (lastSyncTime \/ p.resp = "ok")
        /\ isSyncing' = FALSE
        /\ posts' = posts \ {p}
        /\ UNCHANGED <<session, sessVer, st, cl, hasLoadedFromCloud, localStorage, remote,
                       gets, nreq, log, lastSave, lastLoad, hist, page, call>>

\* mutant: a catch block that puts back what the render held before the call
SaveRejectRollsBack ==
    \E p \in posts :
        /\ p.resp = "sent"
        /\ log' = log \cup {"Sync Error"}
        /\ isSyncing' = FALSE
        /\ posts' = posts \ {p}
        /\ st' = cl.data
        /\ localStorage' = persistLocal(cl.data)
        /\ UNCHANGED <<session, sessVer, cl, hasLoadedFromCloud, lastSyncTime,
                       remote, gets, nreq, lastSave, lastLoad, hist, page, call>>

\* the fetch of lines 65-69 rejects (the request is lost, nothing is saved):
\* catch logs it, finally clears isSyncing
SaveReject ==
    \E p \in posts :
        /\ p.resp = "sent"
        /\ log' = log \cup {"Sync Error"}
        /\ isSyncing' = FALSE
        /\ posts' = posts \ {p}
        /\ UNCHANGED <<session, sessVer, st, cl, hasLoadedFromCloud, lastSyncTime,
                       localStorage, remote, gets, nreq, lastSave, lastLoad, hist, page, call>>

----------------------------------------------------------------------------
(* useStudyData: the load effect, lines 79-132 *)

\* mutant: the streak read from a field the document does not have
orDefaultWrongField(data, s) ==
    IF s \notin DOMAIN data \/ s = "loginStreak" THEN DefaultOf(s) ELSE data[s]

\* operand `|| default` of lines 105-116: a missing or falsy field gives the default
orDefault(data, s) ==
    IF s \notin DOMAIN data THEN DefaultOf(s)
    ELSE IF s = "loginStreak" THEN (IF data[s] = 0 THEN 0 ELSE data[s])
    ELSE IF s = "lastLogin" THEN (IF data[s] = "" THEN "" ELSE data[s])
    ELSE data[s]

\* step 3, lines 105-109: every slice is set from the cloud document
cloudSnapshot(data) == [s \in Slices |-> orDefault(data, s)]

\* lines 119-121 lie inside try, after both awaits: the gate opens when the
\* response was read, whatever data it carried, and stays as it is when the
\* fetch rejected or the body could not be parsed
gateAfterLoad(kind, gate) == IF kind = "fail" THEN gate ELSE TRUE

\* what load() finds when its awaits of lines 100-101 settle
LoadKind(g) ==
    IF g.resp = "sent" THEN "fail"
    ELSE IF g.resp = "errJson" THEN "nodoc"
    ELSE IF g.data.null THEN "nodoc" ELSE "doc"

\* the request of line 100; the cookie names the identity signed in now
NewGet == [n |-> nreq + 1, id |-> session, resp |-> "sent", data |-> [null |-> TRUE]]

\* mutant: a load() whose last branch is a plain else, taken while the
\* session is still loading
loadStartOpensGate ==
    /\ st' = localSnapshot(localStorage)
    /\ IF Status(session) = "authenticated"
         THEN /\ nreq < MaxReq
              /\ isSyncing' = TRUE
              /\ gets' = gets \cup {NewGet}
              /\ nreq' = nreq + 1
              /\ UNCHANGED hasLoadedFromCloud
         ELSE /\ hasLoadedFromCloud' = TRUE
              /\ UNCHANGED <<isSyncing, gets, nreq>>

\* the synchronous part of load(), lines 84-98 and 127-129
loadStart ==
    /\ st' = localSnapshot(localStorage)
    /\ IF Status(session) = "authenticated"
         THEN /\ nreq < MaxReq
              /\ isSyncing' = TRUE
              /\ gets' = gets \cup {NewGet}
              /\ nreq' = nreq + 1
              /\ UNCHANGED hasLoadedFromCloud
         ELSE /\ hasLoadedFromCloud' = (hasLoadedFromCloud \/ Status(session) = "unauthenticated")
              /\ UNCHANGED <<isSyncing, gets, nreq>>

\* React renders the component: the closures of saveData and of the handlers
\* now hold the current state and session; the effect of lines 79-132 runs on
\* the first render and when its dependencies [status, session] changed
Render ==
    /\ cl # [mounted |-> TRUE, session |-> session, sessVer |-> sessVer, data |-> st]
    /\ cl' = [mounted |-> TRUE, session |-> session, sessVer |-> sessVer, data |-> st]
    /\ IF ~cl.mounted \/ cl.session # session \/ cl.sessVer # sessVer
         THEN loadStart
         ELSE UNCHANGED <<st, hasLoadedFromCloud, isSyncing, gets, nreq>>
    /\ UNCHANGED <<session, sessVer, lastSyncTime, localStorage, remote, posts, log,
                   lastSave, lastLoad, hist, page, call>>

\* load() resumes after `await fetch` / `await res.json()`, lines 101-126; a
\* request still "sent" resumes it with a rejection
LoadResume(g) ==
    LET kind == LoadKind(g) IN
    /\ IF kind = "doc"
         THEN /\ st' = cloudSnapshot(g.data.data)
              /\ localStorage' = persistLocal(cloudSnapshot(g.data.data))
         ELSE UNCHANGED <<st, localStorage>>
    /\ hasLoadedFromCloud' = gateAfterLoad(kind, hasLoadedFromCloud)
    /\ lastSyncTime' = (lastSyncTime \/ kind # "fail")
    /\ log' = IF kind = "fail" THEN log \cup {"Cloud Load Error"} ELSE log
    /\ isSyncing' = FALSE
    /\ gets' = gets \ {g}
    /\ hist' = [hist EXCEPT !.resolved = @ \cup {g.id}]
    /\ lastLoad' = [done |-> TRUE, kind |-> kind, forId |-> g.id]
    /\ UNCHANGED <<session, sessVer, cl, remote, posts, nreq, lastSave, page, call>>

\* the response arrived
LoadComplete == \E g \in gets : g.resp # "sent" /\ LoadResume(g)

\* the fetch rejected, or the body was no JSON
LoadReject == \E g \in gets : g.resp = "sent" /\ LoadResume(g)

----------------------------------------------------------------------------
(* /api/sync *)

\* GET /api/sync for the identity of the request's cookie: the document, or
\* an error status with a JSON body that has no data field
ApiSyncGet ==
    \E g \in gets : \E r \in {"ok", "errJson"} :
        /\ g.resp = "sent"
        /\ gets' = (gets \ {g}) \cup
                     {[g EXCEPT !.resp = r,
                                !.data = IF r = "ok" THEN getUserData(remote[g.id]) ELSE @]}
        /\ UNCHANGED <<session, sessVer, st, cl, hasLoadedFromCloud, isSyncing, lastSyncTime,
                       localStorage, remote, posts, nreq, log, lastSave, lastLoad, hist, page, call>>

\* POST /api/sync: the body is saved to the document of the cookie's identity;
\* a request without a signed-in identity is refused, and the route may fail
ApiSyncPost ==
    \E p \in posts : \E r \in {"ok", "notok"} :
        /\ p.resp = "sent"
        /\ r = "ok" => p.id \in Ids
        /\ posts' = (posts \ {p}) \cup {[p EXCEPT !.resp = r]}
        /\ IF r = "ok"
             THEN /\ remote' = [remote EXCEPT ![p.id] = saveUserData(@, p.body)]
                  /\ hist' = [hist EXCEPT !.applied = @ \cup {p.n}]
             ELSE UNCHANGED <<remote, hist>>
        /\ UNCHANGED <<session, sessVer, st, cl, hasLoadedFromCloud, isSyncing, lastSyncTime,
                       localStorage, gets, nreq, log, lastSave, lastLoad, page, call>>

----------------------------------------------------------------------------
(* Navigation and the account controls, dashboard/page.tsx 567-575 *)

\* handleSwitchAccount, first statement: signOut({ redirect: false }) leaves
\* the page loaded with no session; signIn then navigates (PageLoad)
handleSwitchAccount ==
    /\ cl.mounted
    /\ cl.session \in Ids
    /\ session \in Ids
    /\ hist.changes < MaxChanges
    /\ session' = "anon"
    /\ hist' = [hist EXCEPT !.ids = @ \cup {"anon"}, !.changes = @ + 1]
    /\ UNCHANGED <<sessVer, st, cl, hasLoadedFromCloud, isSyncing, lastSyncTime,
                   localStorage, remote, gets, posts, nreq, log, lastSave, lastLoad, page, call>>

\* a full page load once the requests sent have reached the server: the hook
\* is mounted afresh, the remote documents stay, nobody awaits the responses
Navigate ==
    /\ hist.pageLoads < MaxPageLoads
    /\ \A p \in posts : p.resp # "sent"
    /\ session' = "loading"
    /\ st' = InitialState
    /\ cl' = NotRendered
    /\ hasLoadedFromCloud' = FALSE
    /\ isSyncing' = FALSE
    /\ lastSyncTime' = FALSE
    /\ gets' = {}
    /\ posts' = {}
    /\ log' = {}
    /\ lastSave' = NoSave
    /\ lastLoad' = NoLoad
    /\ hist' = [hist EXCEPT !.ids = {"loading"}, !.resolved = {}, !.writes = 0,
                            !.pageLoads = @ + 1]
    /\ UNCHANGED <<sessVer, remote, nreq, page, call>>

\* sign-in redirect, reload, or the navigation that ends handleSwitchAccount:
\* localStorage stays as it is
PageLoad ==
    /\ Navigate
    /\ UNCHANGED localStorage

\* handleSignOut: localStorage.clear(), then signOut({ callbackUrl: '/' })
\* ends the session and navigates
handleSignOut ==
    /\ cl.mounted
    /\ cl.session \in Ids
    /\ Navigate
    /\ localStorage' = ClearedStorage

----------------------------------------------------------------------------

Next ==
    \/ SessionResolve
    \/ SessionChange
    \/ SessionRefetch
    \/ Render
    \/ Mutate
    \/ SaveComplete
    \/ SaveReject
    \/ LoadComplete
    \/ LoadReject
    \/ ApiSyncGet
    \/ ApiSyncPost
    \/ handleSignOut
    \/ handleSwitchAccount
    \/ PageLoad

Spec == Init /\ [][Next]_vars

----------------------------------------------------------------------------
(* The pages taken one at a time: the timer and the calendar page, which    *)
(* keep a sync engine of their own, and a page on the hook whose            *)
(* localStorage can fail                                                    *)

Pages == {"hook", "timer", "calendar"}

\* what a render captures
Rendered == [mounted |-> TRUE, session |-> session, sessVer |-> sessVer, data |-> st]

\* the effect of a page runs on the first render and when [status, session] changed
EffectRuns == ~cl.mounted \/ cl.session # session \/ cl.sessVer # sessVer

\* the console message of a promise that rejected with nobody handling it
Uncaught == "Uncaught (in promise)"

\* storage.get, lines 11-17 of both pages: null for a missing or empty item
storageGet(ls, key) == IF ls[key] = PlainText("") THEN NoItem ELSE ls[key]

\* storage.set, lines 18-23 of both pages, for a value that is not a string
storageSet(ls, key, value) == [ls EXCEPT ![key] = JSONstringify(value)]

\* a cache whose study_todos item is no JSON text
CorruptStorage == [persistLocal(SnapL) EXCEPT !["study_todos"] = PlainText("oops")]

InitPages ==
    /\ page \in Pages
    /\ session = "loading"
    /\ sessVer = 0
    /\ st = InitialState
    /\ cl = NotRendered
    /\ hasLoadedFromCloud = FALSE
    /\ isSyncing = FALSE
    /\ lastSyncTime = FALSE
    /\ localStorage \in InitLocals \cup {CorruptStorage}
    /\ remote \in InitRemotes
    /\ gets = {}
    /\ posts = {}
    /\ nreq = 0
    /\ log = {}
    /\ lastSave = NoSave
    /\ lastLoad = NoLoad
    /\ hist = NoHist
    /\ call = NoCall

(* timer/page.tsx *)

\* new Date().toDateString() at the stop, and the seconds studied
Today == Day2
Duration == 1

\* handleStopStudy, line 76: today's total grows by the duration
stopStudy(sessions) ==
    [d \in (DOMAIN sessions) \cup {Today} |->
        IF d = Today
          THEN (IF Today \in DOMAIN sessions THEN sessions[Today] ELSE 0) + Duration
          ELSE sessions[d]]

\* syncData, line 49: { studySessions, loginStreak, lastLogin, ...overrides }
timerFinalData(overrides, current) ==
    [s \in {"studySessions", "loginStreak", "lastLogin"} \cup DOMAIN overrides |->
        IF s \in DOMAIN overrides THEN overrides[s] ELSE current[s]]

\* syncData, lines 48-65, up to its await: with a session the POST is sent
\* and line 64 waits for it; without one line 64 runs at once
timerSyncData(overrides) ==
    LET final == timerFinalData(overrides, cl.data)
        cloud == cl.session \in Ids
    IN
    /\ hist.saves < MaxSaves
    /\ cloud => nreq < MaxReq
    /\ IF cloud
         THEN /\ isSyncing' = TRUE
              /\ posts' = posts \cup {NewPost(final)}
              /\ nreq' = nreq + 1
              /\ hist' = [hist EXCEPT !.writes = @ + 1, !.saves = @ + 1,
                             !.issued = IF session \in Ids
                                          THEN [@ EXCEPT ![session] =
                                                   [n |-> nreq + 1, body |-> final]]
                                          ELSE @]
              /\ UNCHANGED localStorage
         ELSE /\ localStorage' = storageSet(localStorage, "study_sessions", final.studySessions)
              /\ hist' = [hist EXCEPT !.saves = @ + 1]
              /\ UNCHANGED <<isSyncing, posts, nreq>>
    /\ lastSave' = [called |-> TRUE, blocked |-> FALSE, overrides |-> overrides,
                    posted |-> IF cloud THEN 1 ELSE 0, warned |-> 0,
                    req |-> IF cloud THEN nreq + 1 ELSE 0]
    /\ UNCHANGED <<session, sessVer, cl, hasLoadedFromCloud, lastSyncTime, remote, gets,
                   log, lastLoad, page, call>>

\* handleStopStudy, lines 72-83, for a running stopwatch
handleStopStudy ==
    LET nextSessions == stopStudy(cl.data.studySessions) IN
    /\ page = "timer"
    /\ cl.mounted
    /\ st' = [st EXCEPT !.studySessions = nextSessions]
    /\ timerSyncData("studySessions" :> nextSessions)

\* the fetch of syncData settles, lines 58-64: ok sets lastSyncTime, a
\* rejection is logged, and then line 64 stores the sessions of the call
TimerSyncSettle ==
    /\ page = "timer"
    /\ \E p \in posts :
        /\ lastSyncTime' = (lastSyncTime \/ p.resp = "ok")
        /\ log' = IF p.resp = "sent" THEN log \cup {"Cloud Sync Error"} ELSE log
        /\ isSyncing' = FALSE
        /\ posts' = posts \ {p}
        /\ localStorage' = storageSet(localStorage, "study_sessions", p.body.studySessions)
        /\ UNCHANGED <<session, sessVer, st, cl, hasLoadedFromCloud, remote, gets, nreq,
                       lastSave, lastLoad, hist, page, call>>

\* loadData, lines 101-122, up to its await: a GET when signed in, the
\* cached sessions when anonymous, nothing while the session is loading
loadData ==
    IF Status(session) = "authenticated"
      THEN /\ nreq < MaxReq
           /\ isSyncing' = TRUE
           /\ gets' = gets \cup {NewGet}
           /\ nreq' = nreq + 1
           /\ UNCHANGED st
      ELSE /\ st' = IF /\ Status(session) = "unauthenticated"
                       /\ storageGet(localStorage, "study_sessions") # NoItem
                      THEN [st EXCEPT !.studySessions =
                               JSONparse(storageGet(localStorage, "study_sessions"))]
                      ELSE st
           /\ UNCHANGED <<isSyncing, gets, nreq>>

\* a render of StudyTimerContent, with the effect of lines 100-125
TimerRender ==
    /\ page = "timer"
    /\ cl # Rendered
    /\ cl' = Rendered
    /\ IF EffectRuns THEN loadData ELSE UNCHANGED <<st, isSyncing, gets, nreq>>
    /\ UNCHANGED <<session, sessVer, hasLoadedFromCloud, lastSyncTime, localStorage, remote,
                   posts, log, lastSave, lastLoad, hist, page, call>>

\* loadData resumes, lines 106-113: three slices from the document; there is
\* no catch, so a rejection leaves the promise of loadData rejected
TimerLoadSettle ==
    /\ page = "timer"
    /\ \E g \in gets :
        LET kind == LoadKind(g) IN
        /\ st' = IF kind = "doc"
                   THEN [st EXCEPT !.studySessions = orDefault(g.data.data, "studySessions"),
                                   !.loginStreak = orDefault(g.data.data, "loginStreak"),
                                   !.lastLogin = orDefault(g.data.data, "lastLogin")]
                   ELSE st
        /\ log' = IF kind = "fail" THEN log \cup {Uncaught} ELSE log
        /\ isSyncing' = FALSE
        /\ gets' = gets \ {g}
        /\ hist' = [hist EXCEPT !.resolved = @ \cup {g.id}]
        /\ lastLoad' = [done |-> TRUE, kind |-> kind, forId |-> g.id]
        /\ UNCHANGED <<session, sessVer, cl, hasLoadedFromCloud, lastSyncTime, localStorage,
                       remote, posts, nreq, lastSave, page, call>>

(* calendar/page.tsx *)

\* syncData, line 51: { events, loginStreak, lastLogin, ...overrides }
calendarFinalData(overrides, current) ==
    [s \in {"events", "loginStreak", "lastLogin"} \cup DOMAIN overrides |->
        IF s \in DOMAIN overrides THEN overrides[s] ELSE current[s]]

\* syncData, lines 48-63, up to its await: without a session it returns at
\* line 49; with one it sends the POST
calendarSyncData(overrides) ==
    LET final == calendarFinalData(overrides, cl.data)
        cloud == cl.session \in Ids
    IN
    /\ hist.saves < MaxSaves
    /\ cloud => nreq < MaxReq
    /\ IF cloud
         THEN /\ isSyncing' = TRUE
              /\ posts' = posts \cup {NewPost(final)}
              /\ nreq' = nreq + 1
              /\ hist' = [hist EXCEPT !.writes = @ + 1, !.saves = @ + 1,
                             !.issued = IF session \in Ids
                                          THEN [@ EXCEPT ![session] =
                                                   [n |-> nreq + 1, body |-> final]]
                                          ELSE @]
         ELSE /\ hist' = [hist EXCEPT !.saves = @ + 1]
              /\ UNCHANGED <<isSyncing, posts, nreq>>
    /\ lastSave' = [called |-> TRUE, blocked |-> FALSE, overrides |-> overrides,
                    posted |-> IF cloud THEN 1 ELSE 0, warned |-> 0,
                    req |-> IF cloud THEN nreq + 1 ELSE 0]
    /\ UNCHANGED <<session, sessVer, cl, hasLoadedFromCloud, lastSyncTime, localStorage,
                   remote, gets, log, lastLoad, page, call>>

\* handleAddEvent, lines 65-75, for an event on Day1
calendarHandleAddEvent ==
    LET nextEvents == addEvent(cl.data.events) IN
    /\ page = "calendar"
    /\ cl.mounted
    /\ st' = [st EXCEPT !.events = nextEvents]
    /\ calendarSyncData("events" :> nextEvents)

\* lines 78-80: the day's list without the event; an emptied day loses its key
deleteEvent(events, dateKey, eventId) ==
    LET rest == SelectSeq(events[dateKey], LAMBDA e : e # eventId) IN
    IF rest = <<>>
      THEN [d \in (DOMAIN events) \ {dateKey} |-> events[d]]
      ELSE [events EXCEPT ![dateKey] = rest]

\* handleDeleteEvent, lines 77-83, for an event the render shows
calendarHandleDeleteEvent ==
    /\ page = "calendar"
    /\ cl.mounted
    /\ \E dateKey \in DOMAIN cl.data.events :
         \E i \in 1..Len(cl.data.events[dateKey]) :
            LET nextEvents == deleteEvent(cl.data.events, dateKey, cl.data.events[dateKey][i]) IN
            /\ st' = [st EXCEPT !.events = nextEvents]
            /\ calendarSyncData("events" :> nextEvents)

\* the fetch of syncData settles, lines 58-62: only an ok response sets
\* lastSyncTime and stores the events of the call
CalendarSyncSettle ==
    /\ page = "calendar"
    /\ \E p \in posts :
        /\ lastSyncTime' = (lastSyncTime \/ p.resp = "ok")
        /\ log' = IF p.resp = "sent" THEN log \cup {"Cloud Sync Error"} ELSE log
        /\ isSyncing' = FALSE
        /\ posts' = posts \ {p}
        /\ localStorage' = IF p.resp = "ok"
                             THEN storageSet(localStorage, "study_events", p.body.events)
                             ELSE localStorage
        /\ UNCHANGED <<session, sessVer, st, cl, hasLoadedFromCloud, remote, gets, nreq,
                       lastSave, lastLoad, hist, page, call>>

\* a render of StudyCalendarContent, with the effect of lines 123-138, up to
\* its await
CalendarRender ==
    /\ page = "calendar"
    /\ cl # Rendered
    /\ cl' = Rendered
    /\ IF EffectRuns /\ Status(session) = "authenticated"
         THEN /\ nreq < MaxReq
              /\ isSyncing' = TRUE
              /\ gets' = gets \cup {NewGet}
              /\ nreq' = nreq + 1
         ELSE UNCHANGED <<isSyncing, gets, nreq>>
    /\ UNCHANGED <<session, sessVer, st, hasLoadedFromCloud, lastSyncTime, localStorage,
                   remote, posts, log, lastSave, lastLoad, hist, page, call>>

\* the effect resumes, lines 129-135: three slices from the document; no catch
CalendarLoadSettle ==
    /\ page = "calendar"
    /\ \E g \in gets :
        LET kind == LoadKind(g) IN
        /\ st' = IF kind = "doc"
                   THEN [st EXCEPT !.events = orDefault(g.data.data, "events"),
                                   !.loginStreak = orDefault(g.data.data, "loginStreak"),
                                   !.lastLogin = orDefault(g.data.data, "lastLogin")]
                   ELSE st
        /\ log' = IF kind = "fail" THEN log \cup {Uncaught} ELSE log
        /\ isSyncing' = FALSE
        /\ gets' = gets \ {g}
        /\ hist' = [hist EXCEPT !.resolved = @ \cup {g.id}]
        /\ lastLoad' = [done |-> TRUE, kind |-> kind, forId |-> g.id]
        /\ UNCHANGED <<session, sessVer, cl, hasLoadedFromCloud, lastSyncTime, localStorage,
                       remote, posts, nreq, lastSave, page, call>>

(* useStudyData over a localStorage that can fail *)

\* the order of the setItem calls, lines 55-59
KeyOrder == <<"study_todos", "study_events", "study_sessions", "study_streak",
              "study_last_login">>

\* which setItem call of lines 55-59 throws QuotaExceededError; 0 when none does
FailPoints == 0..Len(KeyOrder)

\* lines 55-59 when call number failAt throws: the calls before it have stored
persistUntil(ls, snap, failAt) ==
    [k \in Keys |->
        IF \E i \in 1..(failAt - 1) : KeyOrder[i] = k
          THEN Stored(SliceOf(k), snap[SliceOf(k)])
          ELSE ls[k]]

\* JSON.parse of lines 84-86 throws SyntaxError: an item that is present, not
\* empty and no JSON text
parseThrows(ls) ==
    \E s \in JsonSlices :
        /\ ls[KeyOf(s)] # NoItem
        /\ ls[KeyOf(s)] # PlainText("")
        /\ "json" \notin DOMAIN ls[KeyOf(s)]

\* saveData when a setItem of lines 55-59 throws: they are outside any try,
\* so the promise of saveData rejects and the awaiting handler with it
saveDataThrows(overrides, failAt) ==
    LET final == finalData(overrides, cl.data) IN
    /\ cl.mounted
    /\ hist.saves < MaxSaves
    /\ ~saveDataBlocked(Status(cl.session), hasLoadedFromCloud)
    /\ localStorage' = persistUntil(localStorage, final, failAt)
    /\ log' = log \cup {Uncaught}
    /\ hist' = [hist EXCEPT !.saves = @ + 1]
    /\ lastSave' = [called |-> TRUE, blocked |-> FALSE, overrides |-> overrides,
                    posted |-> 0, warned |-> 0, req |-> 0]
    /\ UNCHANGED <<session, sessVer, cl, hasLoadedFromCloud, isSyncing, lastSyncTime, remote,
                   gets, posts, nreq, lastLoad, page, call>>

\* a view handler on the hook, as Mutate, with the outcome of its setItem calls
HookMutate ==
    /\ page = "hook"
    /\ \E failAt \in FailPoints :
         IF failAt = 0
           THEN Mutate
           ELSE \E s \in ViewSlices :
                  LET v == NextValue(s, cl.data[s]) IN
                  /\ st' = [st EXCEPT ![s] = v]
                  /\ saveDataThrows(s :> v, failAt)

\* a render of the hook: the JSON.parse calls of lines 84-86 come before any
\* setter and outside the try, so an unparsable item rejects the promise of
\* load() before anything else happened
HookRender ==
    /\ page = "hook"
    /\ IF EffectRuns /\ parseThrows(localStorage)
         THEN /\ cl # Rendered
              /\ cl' = Rendered
              /\ log' = log \cup {Uncaught}
              /\ UNCHANGED <<session, sessVer, st, hasLoadedFromCloud, isSyncing,
                             lastSyncTime, localStorage, remote, gets, posts, nreq,
                             lastSave, lastLoad, hist, page, call>>
         ELSE Render

\* the requests of the hook settle as in SaveComplete, SaveReject,
\* LoadComplete and LoadReject
HookSettle ==
    /\ page = "hook"
    /\ (SaveComplete \/ SaveReject \/ LoadComplete \/ LoadReject)

NextPages ==
    \/ SessionResolve
    \/ TimerRender
    \/ handleStopStudy
    \/ TimerSyncSettle
    \/ TimerLoadSettle
    \/ CalendarRender
    \/ calendarHandleAddEvent
    \/ calendarHandleDeleteEvent
    \/ CalendarSyncSettle
    \/ CalendarLoadSettle
    \/ HookRender
    \/ HookMutate
    \/ HookSettle
    \/ ApiSyncGet
    \/ ApiSyncPost

SpecPages == InitPages /\ [][NextPages]_vars

----------------------------------------------------------------------------
(* The list handlers of the todos page and of the schedule page, on an      *)
(* anonymous session: what they compute from the lists their render shows   *)

MaxOps == 4          \* handler calls in one behaviour
MaxTodos == 3        \* tasks in the list
MaxBucket == 2       \* events of one day
MaxClock == 3        \* values Date.now() takes

ListPages == {"todos", "schedule"}

Priorities == {"Critical", "High", "Medium", "Low"}

\* priorityWeight, todos/page.tsx 32-37
priorityWeight(p) ==
    CASE p = "Critical" -> 0
      [] p = "High" -> 1
      [] p = "Medium" -> 2
      [] p = "Low" -> 3

\* priorityWeight[t.priority || 'Medium'], line 77; "" stands for no priority
weightOf(t) == priorityWeight(IF t.priority = "" THEN "Medium" ELSE t.priority)

\* newTodoItem, lines 68-73
Task(id, priority) == [id |-> id, priority |-> priority, completed |-> FALSE]

\* Array.prototype.splice(index, 0, item), with indices counted from 1
spliceIn(seq, index, item) ==
    SubSeq(seq, 1, index - 1) \o <<item>> \o SubSeq(seq, index, Len(seq))

\* Array.prototype.splice(index, 1), with indices counted from 1
spliceOut(seq, index) ==
    SubSeq(seq, 1, index - 1) \o SubSeq(seq, index + 1, Len(seq))

\* mutant: findIndex with >= in place of >
insertionIndexBeforeEqual(todos, priority) ==
    LET hits == {i \in 1..Len(todos) : weightOf(todos[i]) >= priorityWeight(priority)} IN
    IF hits = {} THEN Len(todos) + 1
    ELSE CHOOSE i \in hits : \A j \in hits : i <= j

\* lines 76-80: the first task that weighs more than the new one, or the end
insertionIndex(todos, priority) ==
    LET hits == {i \in 1..Len(todos) : weightOf(todos[i]) > priorityWeight(priority)} IN
    IF hits = {} THEN Len(todos) + 1
    ELSE CHOOSE i \in hits : \A j \in hits : i <= j

\* lines 82-83: nextTodos
addTodoAt(todos, priority, now) ==
    spliceIn(todos, insertionIndex(todos, priority), Task(now, priority))

\* handleToggleTodo, line 93
toggleTodo(todos, id) ==
    [i \in 1..Len(todos) |->
        IF todos[i].id = id THEN [todos[i] EXCEPT !.completed = ~@] ELSE todos[i]]

\* handleDeleteTodo, line 99
deleteTodo(todos, id) == SelectSeq(todos, LAMBDA t : t.id # id)

\* mutant: the two tasks change places
reorderSwap(todos, source, destination) ==
    [i \in 1..Len(todos) |->
        IF i = source THEN todos[destination]
        ELSE IF i = destination THEN todos[source] ELSE todos[i]]

\* onDragEnd, lines 56-58: the task leaves its place and enters at the destination
reorder(todos, source, destination) ==
    spliceIn(spliceOut(todos, source), destination, todos[source])

\* Date.now(): not before the time any id in sight was taken
Now(ids) == {n \in 1..MaxClock : \A i \in ids : n >= i}

TodoIds(todos) == {todos[i].id : i \in 1..Len(todos)}
EventIds(events) == UNION {{events[d][i] : i \in 1..Len(events[d])} : d \in DOMAIN events}

\* handleAddEvent, schedule/page.tsx 43-46, for any day
scheduleAddEvent(events, dateKey, id) ==
    [d \in (DOMAIN events) \cup {dateKey} |->
        IF d = dateKey
          THEN Append(IF dateKey \in DOMAIN events THEN events[dateKey] ELSE <<>>, id)
          ELSE events[d]]

\* mutant: the emptied day keeps its key
scheduleDeleteEventKeepsKey(events, dateKey, eventId) ==
    IF dateKey \in DOMAIN events
      THEN [events EXCEPT ![dateKey] = SelectSeq(@, LAMBDA e : e # eventId)]
      ELSE events

\* handleDeleteEvent, schedule/page.tsx 57-63: nothing to do for an absent day
scheduleDeleteEvent(events, dateKey, eventId) ==
    IF dateKey \in DOMAIN events THEN deleteEvent(events, dateKey, eventId) ELSE events

\* the lists a page starts from
InitTodoLists == {<<>>, <<Task(1, "High"), Task(2, "")>>}
InitEventMaps == {EmptyMap, Day1 :> <<1>>}

InitLists ==
    /\ page \in ListPages
    /\ session = "anon"
    /\ sessVer = 0
    /\ \E todos \in InitTodoLists : \E events \in InitEventMaps :
          st = [InitialState EXCEPT !.todos = todos, !.events = events]
    /\ cl = [mounted |-> TRUE, session |-> "anon", sessVer |-> 0, data |-> st]
    /\ hasLoadedFromCloud = TRUE
    /\ isSyncing = FALSE
    /\ lastSyncTime = FALSE
    /\ localStorage = persistLocal(st)
    /\ remote \in InitRemotes
    /\ gets = {}
    /\ posts = {}
    /\ nreq = 0
    /\ log = {}
    /\ lastSave = NoSave
    /\ lastLoad = NoLoad
    /\ hist = NoHist
    /\ call = NoCall

\* a handler of the page: the setter, saveData of an anonymous render (lines
\* 40-59 of the hook, no gate, no fetch) and the render that follows
ListMutation(op, args, s, v) ==
    /\ call.n < MaxOps
    /\ call' = [n |-> call.n + 1, op |-> op, args |-> args]
    /\ st' = [st EXCEPT ![s] = v]
    /\ cl' = [cl EXCEPT !.data = st']
    /\ localStorage' = localAfterSave(FALSE, localStorage, finalData(s :> v, cl.data))
    /\ lastSave' = [called |-> TRUE, blocked |-> FALSE, overrides |-> (s :> v),
                    posted |-> 0, warned |-> 0, req |-> 0]
    /\ hist' = [hist EXCEPT !.saves = @ + 1]
    /\ UNCHANGED <<session, sessVer, hasLoadedFromCloud, isSyncing, lastSyncTime, remote,
                   gets, posts, nreq, log, lastLoad, page>>

\* handleAddTodo, todos/page.tsx 65-90
handleAddTodo ==
    /\ page = "todos"
    /\ Len(cl.data.todos) < MaxTodos
    /\ \E priority \in Priorities : \E now \in Now(TodoIds(cl.data.todos)) :
          ListMutation("handleAddTodo", <<priority, now>>, "todos",
                       addTodoAt(cl.data.todos, priority, now))

\* handleToggleTodo, todos/page.tsx 92-96
handleToggleTodo ==
    /\ page = "todos"
    /\ \E id \in TodoIds(cl.data.todos) :
          ListMutation("handleToggleTodo", <<id>>, "todos", toggleTodo(cl.data.todos, id))

\* handleDeleteTodo, todos/page.tsx 98-103
handleDeleteTodo ==
    /\ page = "todos"
    /\ \E id \in TodoIds(cl.data.todos) :
          ListMutation("handleDeleteTodo", <<id>>, "todos", deleteTodo(cl.data.todos, id))

\* onDragEnd, todos/page.tsx 53-62; destination 0 stands for a drop outside
\* the list (result.destination is null): line 54 returns
onDragEnd ==
    /\ page = "todos"
    /\ \E source \in 1..Len(cl.data.todos) : \E destination \in 0..Len(cl.data.todos) :
          IF destination = 0
            THEN /\ call.n < MaxOps
                 /\ call' = [n |-> call.n + 1, op |-> "onDragEnd",
                             args |-> <<source, destination>>]
                 /\ UNCHANGED <<session, sessVer, st, cl, hasLoadedFromCloud, isSyncing,
                                lastSyncTime, localStorage, remote, gets, posts, nreq, log,
                                lastSave, lastLoad, hist, page>>
            ELSE ListMutation("onDragEnd", <<source, destination>>, "todos",
                              reorder(cl.data.todos, source, destination))

\* handleAddEvent, schedule/page.tsx 37-54
scheduleHandleAddEvent ==
    /\ page = "schedule"
    /\ \E dateKey \in {Day1, Day2} : \E now \in Now(EventIds(cl.data.events)) :
          /\ dateKey \in DOMAIN cl.data.events => Len(cl.data.events[dateKey]) < MaxBucket
          /\ ListMutation("handleAddEvent", <<dateKey, now>>, "events",
                          scheduleAddEvent(cl.data.events, dateKey, now))

\* handleDeleteEvent, schedule/page.tsx 56-67
scheduleHandleDeleteEvent ==
    /\ page = "schedule"
    /\ \E dateKey \in {Day1, Day2} : \E eventId \in 1..MaxClock :
          ListMutation("handleDeleteEvent", <<dateKey, eventId>>, "events",
                       scheduleDeleteEvent(cl.data.events, dateKey, eventId))

NextLists ==
    \/ handleAddTodo
    \/ handleToggleTodo
    \/ handleDeleteTodo
    \/ onDragEnd
    \/ scheduleHandleAddEvent
    \/ scheduleHandleDeleteEvent

SpecLists == InitLists /\ [][NextLists]_vars

----------------------------------------------------------------------------
(* Steps, as the properties below recognise them *)

\* this step is a call of saveData
SaveStep == hist'.saves = hist.saves + 1

\* this step resumes the load() that awaited request g
LoadStepOf(g) == g \in gets /\ gets' = gets \ {g} /\ hist'.pageLoads = hist.pageLoads

\* the requests this step issued
NewPosts == posts' \ posts

\* the page has only ever seen the identity now signed in
SingleIdentity == session \in Ids /\ hist.ids = {"loading", session}

\* this step settles the fetch of saveData that sent p: then, catch or finally
SaveSettleStep(p) == p \in posts /\ posts' = posts \ {p} /\ hist'.pageLoads = hist.pageLoads

\* the POST of the most recent saveData call was settled without being saved
LastSaveFailed ==
    /\ lastSave.req > 0
    /\ lastSave.req \notin hist.applied
    /\ \A p \in posts : p.n # lastSave.req

\* this step is /api/sync saving the body of POST p
ApplyStep(p) == p \in posts /\ p.n \notin hist.applied /\ p.n \in hist'.applied

\* this step is a render that runs the effect of lines 79-132
LoadEffectStep ==
    /\ cl' # cl
    /\ cl'.mounted
    /\ (~cl.mounted \/ cl.session # cl'.session \/ cl.sessVer # cl'.sessVer)

----------------------------------------------------------------------------
(* Properties *)

C2_GateRearmed ==
    \A p \in posts : p.id \in Ids => p.id \in hist.resolved

\* C3 as claimed: every saveData call leaves localStorage holding the new
\* snapshot: all five keys are set and every slice named in the overrides is
\* stored with its new value.
C3_LocalDurability ==
    [][SaveStep =>
         /\ \A k \in Keys : localStorage'[k] # NoItem
         /\ \A s \in DOMAIN lastSave'.overrides :
               localStorage'[KeyOf(s)] = Stored(s, lastSave'.overrides[s])]_vars

\* C4: when load() resumes with a document R, the state and localStorage hold
\* R afterwards: every slice of R as R has it, every slice R lacks empty.
C4_RemoteWins ==
    [][\A g \in gets :
         (LoadStepOf(g) /\ g.resp = "ok" /\ ~g.data.null) =>
            LET R == g.data.data IN
            \A s \in Slices :
               LET want == IF s \in DOMAIN R THEN R[s] ELSE DefaultOf(s) IN
               /\ st'[s] = want
               /\ localStorage'[KeyOf(s)] = Stored(s, want)
               /\ ReadLocal(localStorage', s) = want]_vars

\* C4 witness: the page held the cached snapshot and now holds A's document
C4_Witness ==
    /\ lastLoad.done
    /\ lastLoad.kind = "doc"
    /\ lastLoad.forId = "A"
    /\ st = SnapA
    /\ localStorage = persistLocal(SnapA)
    /\ cl.data = SnapL

\* C5 as claimed: once every POST issued for an identity has been handled and
\* the latest of them was saved, the document holds the todos of that latest
\* POST, in whatever order the server handled them.
C5_LastWriteWins ==
    \A id \in Ids :
        ( /\ hist.issued[id].n \in hist.applied
          /\ \A p \in posts : p.id = id => p.resp # "sent" )
        => ( /\ remote[id].exists
             /\ "todos" \in DOMAIN remote[id].data
             /\ remote[id].data.todos = hist.issued[id].body.todos )

\* C6 as claimed: when the fetch of load() rejects, the gate is open
\* afterwards, state and localStorage are as before, and the error is logged.
C6_FailOpen ==
    [][\A g \in gets :
         (LoadStepOf(g) /\ g.resp = "sent") =>
            /\ hasLoadedFromCloud'
            /\ st' = st
            /\ localStorage' = localStorage
            /\ "Cloud Load Error" \in log']_vars

\* C7 as claimed: once a remote read for the signed-in identity has resolved
\* (document, no document or failure), every saveData call of a render that
\* holds this identity issues exactly one POST, whose body is the merged
\* snapshot of the call.
C7_OneWritePerSave ==
    [][(SaveStep /\ session \in Ids /\ cl.session = session /\ session \in hist.resolved) =>
         /\ Cardinality(NewPosts) = 1
         /\ \A p \in NewPosts : p.body = finalData(lastSave'.overrides, cl.data)
         /\ hist'.writes = hist.writes + 1]_vars

C9_NoStaleSnapshot ==
    [][(SaveStep /\ ~lastSave'.blocked) =>
         \A s \in Slices \ DOMAIN lastSave'.overrides :
            /\ ReadLocal(localStorage', s) = st[s]
            /\ \A p \in NewPosts : p.body[s] = st[s]]_vars

\* C10 as claimed: a response that resumes load() after the identity it was
\* requested for is no longer the one signed in changes neither the state nor
\* localStorage nor the gate.
C10_StaleDiscarded ==
    [][\A g \in gets :
         (LoadStepOf(g) /\ g.id # session) =>
            /\ st' = st
            /\ localStorage' = localStorage
            /\ hasLoadedFromCloud' = hasLoadedFromCloud]_vars

\* C11 as claimed: on a page that has only ever seen the one signed-in
\* identity, once the POST of a saveData call has failed, the values the call
\* named stay in the state and in localStorage through every later step that
\* is neither a saveData call nor a page load or sign-out, a re-run of the
\* load effect for the same identity included.
C11_LocalCopyKept ==
    [][(SingleIdentity /\ LastSaveFailed /\ ~SaveStep /\ hist'.pageLoads = hist.pageLoads) =>
         \A s \in DOMAIN lastSave.overrides :
            (st[s] = lastSave.overrides[s] /\ ReadLocal(localStorage, s) = lastSave.overrides[s])
            => (st'[s] = lastSave.overrides[s]
                /\ ReadLocal(localStorage', s) = lastSave.overrides[s])]_vars

\* C12: when the POST of a saveData call fails (the fetch rejects or the
\* response is not ok), the call ends with isSyncing cleared, the state,
\* localStorage and the gate are as before the failure, and a saveData call
\* made after a failure still stores every slice it names and, for a
\* signed-in render, issues its POST.
C12_FailureNonBlocking ==
    [][/\ \A p \in posts :
            (SaveSettleStep(p) /\ p.resp # "ok") =>
               /\ st' = st
               /\ localStorage' = localStorage
               /\ hasLoadedFromCloud' = hasLoadedFromCloud
               /\ ~isSyncing'
       /\ (SaveStep /\ LastSaveFailed /\ ~lastSave'.blocked) =>
               /\ \A s \in DOMAIN lastSave'.overrides :
                     ReadLocal(localStorage', s) = lastSave'.overrides[s]
               /\ cl.session \in Ids => Cardinality(NewPosts) = 1]_vars

\* C12 witness: the POST of the first call was rejected; the second call has
\* stored its values and its POST is in flight
C12_Witness ==
    /\ "Sync Error" \in log
    /\ hist.saves = 2
    /\ lastSave.posted = 1
    /\ posts # {}
    /\ \A p \in posts : p.n = lastSave.req /\ p.resp = "sent"
    /\ \A s \in DOMAIN lastSave.overrides :
          ReadLocal(localStorage, s) = lastSave.overrides[s] /\ st[s] = lastSave.overrides[s]

\* C13: with status 'unauthenticated' the load effect opens the gate at once
\* and sends nothing; every saveData call of such a render stores the merged
\* snapshot in localStorage and sends nothing.
C13_AnonymousLocalOnly ==
    [][/\ (LoadEffectStep /\ session = "anon") =>
            /\ hasLoadedFromCloud'
            /\ gets' = gets /\ posts' = posts /\ nreq' = nreq
       /\ (SaveStep /\ cl.session = "anon") =>
            /\ ~lastSave'.blocked
            /\ localStorage' = persistLocal(finalData(lastSave'.overrides, cl.data))
            /\ \A s \in DOMAIN lastSave'.overrides :
                  ReadLocal(localStorage', s) = lastSave'.overrides[s]
            /\ gets' = gets /\ posts' = posts /\ nreq' = nreq]_vars

\* C13 witness: an anonymous page whose saveData stored a new task and that
\* has sent no request at all
C13_Witness ==
    /\ session = "anon"
    /\ cl.session = "anon"
    /\ hist.ids = {"loading", "anon"}
    /\ hasLoadedFromCloud
    /\ lastSave.called
    /\ lastSave.posted = 0
    /\ nreq = 0
    /\ ReadLocal(localStorage, "todos") = <<3, 4>>

\* C14: a run of the load effect while the session is loading writes to no
\* store, sends no request and leaves the gate as it is; the render that
\* follows the resolution of the session runs the effect again.
C14_UnknownIdentity ==
    [][/\ (LoadEffectStep /\ session = "loading") =>
            /\ localStorage' = localStorage
            /\ remote' = remote
            /\ gets' = gets /\ posts' = posts /\ nreq' = nreq
            /\ hasLoadedFromCloud' = hasLoadedFromCloud
       /\ (cl' # cl /\ cl'.mounted /\ cl.mounted /\ cl.session = "loading"
           /\ session # "loading") =>
            /\ LoadEffectStep
            /\ st' = localSnapshot(localStorage)
            /\ session = "anon" => hasLoadedFromCloud'
            /\ session \in Ids => Cardinality(gets') = Cardinality(gets) + 1]_vars

\* C14 witness: the hook has rendered with the session still loading; it has
\* read the cached snapshot, the gate is closed and nothing was sent
C14_Witness ==
    /\ cl.mounted
    /\ cl.session = "loading"
    /\ session = "loading"
    /\ st = SnapL
    /\ ~hasLoadedFromCloud
    /\ gets = {}
    /\ posts = {}
    /\ hist.pageLoads = 0

\* C15 as claimed: on a page that uses the hook, no promise of saveData or of
\* load() is ever rejected: whatever localStorage or the remote store does,
\* nothing is reported as uncaught.
C15_NoErrorEscapes ==
    page = "hook" => Uncaught \notin log

\* C16 as claimed: a resumption of load() never turns a slice that is
\* populated, in the state or in localStorage, into an empty one; a document
\* that lacks a slice leaves that slice as it was.
C16_NoImplicitReset ==
    [][\A g \in gets :
         LoadStepOf(g) =>
            \A s \in Slices :
               /\ st[s] # DefaultOf(s) => st'[s] # DefaultOf(s)
               /\ ReadLocal(localStorage, s) # DefaultOf(s)
                     => ReadLocal(localStorage', s) # DefaultOf(s)]_vars

\* C17 as claimed: once /api/sync has saved the body S of a POST, every field
\* S names is stored exactly as S has it, whatever the document held before:
\* a day key that S leaves out is gone from the document.
C17_RemoteOverwrite ==
    [][\A p \in posts :
         ApplyStep(p) =>
            LET got == getUserData(remote'[p.id]) IN
            /\ ~got.null
            /\ \A s \in DOMAIN p.body : got.data[s] = p.body[s]]_vars

\* C18 as claimed: on the timer page, for a signed-in identity, no POST has
\* been issued as long as the remote read of loadData has not resolved.
C18_TimerWriteGated ==
    (page = "timer" /\ SingleIdentity /\ hist.resolved = {})
        => (hist.writes = 0 /\ posts = {})

\* C19 as claimed: a handler of the calendar page that runs without a session
\* leaves the study_events item of localStorage holding the new events map.
C19_CalendarLocalPersist ==
    [][(page = "calendar" /\ SaveStep /\ cl.session = "anon") =>
         localStorage'["study_events"] = JSONstringify(lastSave'.overrides.events)]_vars

\* C20 as claimed: when saveData or the timer's syncData issues its POST, the
\* state and localStorage already hold the values the call named: the local
\* write does not wait for the response.
C20_WriteOrder ==
    [][(page \in {"hook", "timer"} /\ SaveStep) =>
         \A p \in NewPosts :
            \A s \in DOMAIN lastSave'.overrides :
               /\ st'[s] = p.body[s]
               /\ localStorage'[KeyOf(s)] = Stored(s, p.body[s])]_vars

\* C21 as claimed: on the timer page, once the render shows the current
\* sessions, the seconds recorded for a day never decrease in the state,
\* neither at a stop of the stopwatch nor when loadData resumes.
C21_DurationsMonotone ==
    [][(page = "timer" /\ cl.mounted /\ cl.data.studySessions = st.studySessions) =>
         \A d \in DOMAIN st.studySessions :
            /\ d \in DOMAIN st'.studySessions
            /\ st'.studySessions[d] >= st.studySessions[d]]_vars

\* C23 as claimed: lastSyncTime becomes set only in a step that resumes
\* load() or settles saveData's fetch with a response of the route that
\* reports success.
C23_SyncedOnlyOnSuccess ==
    [][(~lastSyncTime /\ lastSyncTime') =>
         \/ \E g \in gets : LoadStepOf(g) /\ g.resp = "ok"
         \/ \E p \in posts : SaveSettleStep(p) /\ p.resp = "ok"]_vars

\* C27 as claimed: isSyncing is true exactly while a GET of load() or a POST
\* of saveData has not been settled.
C27_SyncingTracksInFlight ==
    isSyncing <=> (gets # {} \/ posts # {})

\* C28 as claimed: when no GET of load() and no POST of saveData is pending,
\* the slices named by the latest saveData call have the same value in the
\* state and in localStorage, also when that call was made while
\* authenticated with the gate closed.
C28_MemoryLocalConsistent ==
    (cl.mounted /\ gets = {} /\ posts = {} /\ lastSave.blocked) =>
        \A s \in DOMAIN lastSave.overrides : st[s] = ReadLocal(localStorage, s)

\* C29 as claimed: on a page that has only ever seen identity B, no POST for
\* B carries the task of A's remote document.
C29_NoCrossIdentityLeak ==
    \A p \in posts :
        (p.id = "B" /\ hist.ids = {"loading", "B"}) =>
            \A i \in DOMAIN p.body.todos : p.body.todos[i] # SnapA.todos[1]

\* C30: every saveData call of a render with status 'authenticated', made
\* while the gate is closed, logs the warning once and sends nothing.
C30_BlockedIsLogged ==
    [][(SaveStep /\ Status(cl.session) = "authenticated" /\ ~hasLoadedFromCloud) =>
         /\ lastSave'.blocked
         /\ lastSave'.warned = 1
         /\ "Sync blocked" \in log'
         /\ posts' = posts
         /\ nreq' = nreq
         /\ hist'.writes = hist.writes
         /\ remote' = remote]_vars

\* C30 witness: two calls were turned away while the GET of load() was in
\* flight; the warning is in the log and no POST exists
C30_Witness ==
    /\ Status(cl.session) = "authenticated"
    /\ ~hasLoadedFromCloud
    /\ hist.saves = 2
    /\ lastSave.blocked
    /\ lastSave.warned = 1
    /\ "Sync blocked" \in log
    /\ posts = {}
    /\ hist.writes = 0

----------------------------------------------------------------------------
(* The list handlers *)

CallStep(op) == call'.n = call.n + 1 /\ call'.op = op

Ordered(todos) ==
    \A i, j \in 1..Len(todos) : i < j => weightOf(todos[i]) <= weightOf(todos[j])

IdsDistinct(todos) ==
    \A i, j \in 1..Len(todos) : i # j => todos[i].id # todos[j].id

\* C22: no two tasks of the list have the same id; here for the case the
\* statement names: a list of distinct ids, to which a task has just been
\* added, still has distinct ids after the next handleAddTodo.
C22_AddKeepsIdsDistinct ==
    [][(page = "todos" /\ call.op = "handleAddTodo" /\ CallStep("handleAddTodo")
          /\ IdsDistinct(st.todos)) => IdsDistinct(st'.todos)]_vars

\* C24, as stated: after handleAddTodo the new task stands before the first
\* task that weighs strictly more (or at the end), behind every existing task
\* of its own weight, and the existing tasks keep their order -- for every
\* list, here with an id no task of the list has.
C24_LandsAfterEqualsAlways ==
    [][(CallStep("handleAddTodo") /\ call'.args[2] \notin TodoIds(st.todos)) =>
         LET priority == call'.args[1]
             item == Task(call'.args[2], priority) IN
         \E k \in 1..(Len(st.todos) + 1) :
            /\ st'.todos = spliceIn(st.todos, k, item)
            /\ \A i \in 1..Len(st.todos) :
                  weightOf(st.todos[i]) = priorityWeight(priority) => i < k]_vars

\* C24, amended: after handleAddTodo the new task stands immediately before
\* the first existing task that weighs strictly more, or at the end when there
\* is none; the existing tasks keep their relative order; and when the list
\* was ordered by non-decreasing weight it stays so ordered and the new task
\* stands behind every existing task of its own weight.
C24_PriorityInsertion ==
    [][CallStep("handleAddTodo") =>
         LET priority == call'.args[1]
             item == Task(call'.args[2], priority)
             heavier == {i \in 1..Len(st.todos) :
                            weightOf(st.todos[i]) > priorityWeight(priority)} IN
         \E k \in 1..(Len(st.todos) + 1) :
            /\ st'.todos = spliceIn(st.todos, k, item)
            /\ spliceOut(st'.todos, k) = st.todos
            /\ \A i \in heavier : k <= i
            /\ k \in heavier \/ (heavier = {} /\ k = Len(st.todos) + 1)
            /\ Ordered(st.todos) =>
                  /\ Ordered(st'.todos)
                  /\ \A i \in 1..Len(st.todos) :
                        weightOf(st.todos[i]) = priorityWeight(priority) => i < k
            /\ lastSave'.overrides = ("todos" :> st'.todos)
            /\ ReadLocal(localStorage', "todos") = st'.todos]_vars

\* an ordered list of three in which the task just added stands behind an
\* existing task of its own weight and before a heavier one
C24_Witness ==
    /\ page = "todos"
    /\ call.op = "handleAddTodo"
    /\ call.args[1] = "High"
    /\ Len(st.todos) = 3
    /\ Ordered(st.todos)
    /\ st.todos[1].priority = "High"
    /\ st.todos[2] = Task(call.args[2], "High")
    /\ weightOf(st.todos[3]) > priorityWeight("High")

\* C25: onDragEnd with a destination moves the dragged task to the destination
\* index, keeps every other task in its relative order (so the list is a
\* permutation of the old one), and saves the new list; without a destination
\* it changes nothing and saves nothing.
C25_ReorderIsPermutation ==
    [][CallStep("onDragEnd") =>
         LET source == call'.args[1]
             destination == call'.args[2] IN
         IF destination = 0
           THEN /\ st' = st
                /\ localStorage' = localStorage
                /\ lastSave' = lastSave
                /\ ~SaveStep
           ELSE /\ Len(st'.todos) = Len(st.todos)
                /\ st'.todos[destination] = st.todos[source]
                /\ spliceOut(st'.todos, destination) = spliceOut(st.todos, source)
                /\ SaveStep
                /\ lastSave'.overrides = ("todos" :> st'.todos)
                /\ ReadLocal(localStorage', "todos") = st'.todos]_vars

\* the first of three different tasks was dragged to the end: the other two
\* moved up in their order
C25_Witness ==
    /\ page = "todos"
    /\ call.op = "onDragEnd"
    /\ call.args = <<1, 3>>
    /\ Len(st.todos) = 3
    /\ st.todos[1] # st.todos[2]
    /\ st.todos[2] # st.todos[3]
    /\ st.todos[1] # st.todos[3]
    /\ lastSave.overrides = ("todos" :> st.todos)

NoEmptyBucket(events) == \A d \in DOMAIN events : Len(events[d]) > 0

\* C26: on the schedule page no day keeps an empty list of events; deleting an
\* event removes the events of that id from that day only, removes the day's
\* key when the list becomes empty, leaves the other days as they were, and
\* changes nothing when the day has no key.
C26_NoEmptyBucket ==
    [][page = "schedule" =>
         /\ NoEmptyBucket(st.events) => NoEmptyBucket(st'.events)
         /\ CallStep("handleDeleteEvent") =>
              LET dateKey == call'.args[1]
                  eventId == call'.args[2] IN
              IF dateKey \notin DOMAIN st.events
                THEN st'.events = st.events
                ELSE LET rest == SelectSeq(st.events[dateKey], LAMBDA e : e # eventId) IN
                     /\ DOMAIN st'.events = IF rest = <<>> THEN DOMAIN st.events \ {dateKey}
                                                           ELSE DOMAIN st.events
                     /\ rest # <<>> => st'.events[dateKey] = rest
                     /\ \A d \in DOMAIN st.events \ {dateKey} : st'.events[d] = st.events[d]]_vars

\* the only event of day 1 was deleted: its key is gone and day 2 is as it was
C26_Witness ==
    /\ page = "schedule"
    /\ call.op = "handleDeleteEvent"
    /\ call.args[1] = Day1
    /\ DOMAIN st.events = {Day2}
    /\ Len(st.events[Day2]) > 0
    /\ "events" \in DOMAIN lastSave.overrides
    /\ lastSave.overrides["events"] = st.events

====
